---- MODULE Spec2Model ----
(***************************************************************************)
(* The POST /predict handler of src/server.js: input validation, script    *)
(* resolution, the interpreter loop, and the subprocess event handlers     *)
(* (stdout/stderr data, close, error, 30 second timer).                    *)
(*                                                                         *)
(* Text is a sequence of one-lexeme strings.  Request-local state (the     *)
(* closure variables of one handler invocation) is one record per request. *)
(***************************************************************************)
EXTENDS Integers, Sequences, FiniteSets, TLC

\* ------------------------------------------------------------------ bounds
NumReq == 2
MaxErrChunks == 1

Req == 1..NumReq

\* ------------------------------------------------------- JavaScript values
\* t: type tag, n: numeric payload, s: text payload,
\* p: <<>> or <<v>>, the own property `prediction` of an object.
Val(t, n, s, p) == [t |-> t, n |-> n, s |-> s, p |-> p]
Undefined == Val("undefined", 0, <<>>, <<>>)
Null == Val("null", 0, <<>>, <<>>)
Bool(b) == Val("boolean", IF b THEN 1 ELSE 0, <<>>, <<>>)
Num(n) == Val("number", n, <<>>, <<>>)
Infinity == Val("infinity", 0, <<>>, <<>>)
Str(s) == Val("string", 0, s, <<>>)
Arr == Val("array", 0, <<>>, <<>>)
Obj == Val("object", 0, <<>>, <<>>)
ObjP(v) == Val("object", 0, <<>>, <<v>>)

\* typeof v
TypeOf(v) ==
  CASE v.t = "undefined" -> "undefined"
    [] v.t = "boolean" -> "boolean"
    [] v.t \in {"number", "infinity"} -> "number"
    [] v.t = "string" -> "string"
    [] OTHER -> "object"

\* !v
Falsy(v) ==
  \/ v.t \in {"undefined", "null"}
  \/ v.t = "boolean" /\ v.n = 0
  \/ v.t = "number" /\ v.n = 0
  \/ v.t = "string" /\ v.s = <<>>

WhiteSpace == {" ", "\n"}

RECURSIVE TrimStart(_)
TrimStart(s) ==
  IF s # <<>> /\ Head(s) \in WhiteSpace THEN TrimStart(Tail(s)) ELSE s

RECURSIVE TrimEnd(_)
TrimEnd(s) ==
  IF s # <<>> /\ s[Len(s)] \in WhiteSpace
  THEN TrimEnd(SubSeq(s, 1, Len(s) - 1)) ELSE s

\* String.prototype.trim
Trim(s) == TrimEnd(TrimStart(s))

\* ---------------------------------------------------------------- JSON.parse
\* Lexemes of subprocess output: "\n", "0", "7", "e999", "{p:" (an object
\* opener followed by the key "prediction" and a colon), "}", "str" (the
\* string literal "ok"), "null", "[]", "{}".
Digits == {"0", "7"}
DigitVal(d) == IF d = "7" THEN 7 ELSE 0

PFail == [ok |-> FALSE, val |-> Undefined, rest |-> <<>>]
POk(v, rest) == [ok |-> TRUE, val |-> v, rest |-> rest]

\* the digits following the first one: [n: value so far, rest]
RECURSIVE ParseDigits(_, _)
ParseDigits(n, s) ==
  IF s # <<>> /\ Head(s) \in Digits
  THEN ParseDigits(10 * n + DigitVal(Head(s)), Tail(s))
  ELSE [n |-> n, rest |-> s]

\* optional exponent: a nonzero mantissa with exponent 999 overflows a double
ParseExp(n, s) ==
  IF s # <<>> /\ Head(s) = "e999"
  THEN POk(IF n = 0 THEN Num(0) ELSE Infinity, Tail(s))
  ELSE POk(Num(n), s)

RECURSIVE ParseValue(_)
ParseValue(s0) ==
  LET s == TrimStart(s0) IN
  IF s = <<>> THEN PFail
  ELSE LET h == Head(s)
           r == Tail(s) IN
    CASE h = "0" -> ParseExp(0, r)
      [] h = "7" -> LET d == ParseDigits(7, r) IN ParseExp(d.n, d.rest)
      [] h = "str" -> POk(Str(<<"o", "k">>), r)
      [] h = "null" -> POk(Null, r)
      [] h = "[]" -> POk(Arr, r)
      [] h = "{}" -> POk(Obj, r)
      [] h = "{p:" ->
           LET inner == ParseValue(r) IN
           IF ~inner.ok THEN PFail
           ELSE LET after == TrimStart(inner.rest) IN
                IF after # <<>> /\ Head(after) = "}"
                THEN POk(ObjP(inner.val), Tail(after))
                ELSE PFail
      [] OTHER -> PFail

\* JSON.parse(text): [ok |-> FALSE] stands for the SyntaxError
JSONParse(text) ==
  LET v == ParseValue(text) IN
  IF v.ok /\ TrimStart(v.rest) = <<>> THEN v ELSE PFail

\* JSON.stringify of a value inside a response body (res.json): a non-finite
\* number is serialized as null
WireValue(v) == IF v.t = "infinity" THEN Null ELSE v

Escape(c) == IF c = "\n" THEN "\\n" ELSE c

\* JSON.stringify({ transcript }) for a string transcript
StringifyInput(transcript) ==
  <<"{\"transcript\":", "\"">> \o
  [i \in 1..Len(transcript.s) |-> Escape(transcript.s[i])] \o
  <<"\"", "}">>

\* ------------------------------------------------------------ request state
pythonCommands == <<"python3", "python", "py">>
LastCommand == pythonCommands[Len(pythonCommands)]

debugScriptPath == "scripts/debug_predict.py"
originalScriptPath == "scripts/predict.py"

\* The closure state of one invocation of the handler, with the state of the
\* subprocess it registered handlers on and a record of what it has done.
NewRequest ==
  [received |-> FALSE,        \* the handler has run
   transcript |-> Undefined,  \* req.body.transcript
   debugSeen |-> FALSE,       \* what the file system held when the handler ran
   originalSeen |-> FALSE,
   existsCalls |-> 0,         \* number of fs.existsSync calls made
   scriptPath |-> "",
   scriptExecuted |-> FALSE,
   attempts |-> <<>>,         \* spawn calls made, in order
   cmd |-> 0,                 \* index of pythonCmd in the handlers' closure
   proc |-> "none",           \* none, running, spawnfail, errored, closed
   killed |-> FALSE,          \* python.kill('SIGTERM') was called
   errored |-> FALSE,         \* the 'error' event was delivered
   closeCode |-> Undefined,   \* the code of the 'close' event, once delivered
   closeFirst |-> FALSE,      \* 'close' arrived while scriptExecuted was false
   stdin |-> <<>>,            \* operations on python.stdin, in order
   output |-> <<>>,
   errorOutput |-> <<>>,
   timer |-> "unset",         \* unset, armed, fired
   expired |-> FALSE,         \* the timer fired while scriptExecuted was false
   responses |-> <<>>]        \* responses sent on res, in order

Response(status, error) ==
  [status |-> status, error |-> error, prediction |-> Undefined,
   exitCode |-> Undefined, stderr |-> <<>>, stdout |-> <<>>,
   rawOutput |-> <<>>, pythonCommand |-> "", scriptPath |-> "",
   fields |-> {"error"}]

\* res.status(..).json(..) / res.json(..)
Send(s, resp) == [s EXCEPT !.responses = Append(@, resp)]

\* ------------------------------------------------------------- validation
ValidationError_NoTrim(transcript) ==
  IF Falsy(transcript) THEN "Transcript is required"
  ELSE IF TypeOf(transcript) # "string" THEN "Transcript must be a string"
  ELSE IF Len(transcript.s) = 0 THEN "Transcript cannot be empty"
  ELSE ""

\* The error message of the first failing check, "" when all three pass.
ValidationError(transcript) ==
  IF Falsy(transcript) THEN "Transcript is required"
  ELSE IF TypeOf(transcript) # "string" THEN "Transcript must be a string"
  ELSE IF Len(Trim(transcript.s)) = 0 THEN "Transcript cannot be empty"
  ELSE ""

\* ------------------------------------------------------- script resolution
ResolveScript_PreferOriginal(debugExists, originalExists) ==
  IF originalExists THEN originalScriptPath ELSE debugScriptPath

ResolveScript(debugExists, originalExists) ==
  IF debugExists THEN debugScriptPath ELSE originalScriptPath

ExistsSync(path, debugExists, originalExists) ==
  IF path = debugScriptPath THEN debugExists ELSE originalExists

\* --------------------------------------------------- subprocess handlers
\* python.stdout.on('data')
OnStdout(s, chunk) == [s EXCEPT !.output = @ \o chunk]

\* python.stderr.on('data')
OnStderr(s, chunk) == [s EXCEPT !.errorOutput = @ \o chunk]

\* the try/catch around JSON.parse in the close handler
NormalizeResponse(s) ==
  LET parsed == JSONParse(Trim(s.output))
      invalid == [Response(500, "Invalid JSON from Python script") EXCEPT
                    !.rawOutput = s.output, !.stderr = s.errorOutput,
                    !.pythonCommand = pythonCommands[s.cmd],
                    !.fields = {"error", "parseError", "rawOutput", "stderr",
                                "pythonCommand"}]
  IN
  IF ~parsed.ok THEN invalid                       \* SyntaxError
  ELSE LET result == parsed.val IN
    IF result.t = "null" THEN invalid              \* TypeError on null.prediction
    ELSE LET prediction == IF result.p # <<>> THEN result.p[1] ELSE result IN
      IF TypeOf(prediction) # "number" THEN invalid
      ELSE [Response(200, "") EXCEPT !.prediction = WireValue(prediction),
                                     !.fields = {"prediction"}]

CloseResponse_NoTrim(s, code) ==
  IF code # Num(0)
  THEN [Response(500, "Python script execution failed") EXCEPT
          !.exitCode = code, !.stderr = s.errorOutput, !.stdout = s.output,
          !.pythonCommand = pythonCommands[s.cmd], !.scriptPath = s.scriptPath,
          !.fields = {"error", "exitCode", "stderr", "stdout", "pythonCommand",
                      "scriptPath"}]
  ELSE IF s.output = <<>>
  THEN [Response(500, "No output from Python script") EXCEPT
          !.exitCode = code, !.stderr = s.errorOutput,
          !.pythonCommand = pythonCommands[s.cmd], !.scriptPath = s.scriptPath,
          !.fields = {"error", "exitCode", "stderr", "pythonCommand",
                      "scriptPath"}]
  ELSE NormalizeResponse(s)

CloseResponse(s, code) ==
  IF code # Num(0)
  THEN [Response(500, "Python script execution failed") EXCEPT
          !.exitCode = code, !.stderr = s.errorOutput, !.stdout = s.output,
          !.pythonCommand = pythonCommands[s.cmd], !.scriptPath = s.scriptPath,
          !.fields = {"error", "exitCode", "stderr", "stdout", "pythonCommand",
                      "scriptPath"}]
  ELSE IF Trim(s.output) = <<>>
  THEN [Response(500, "No output from Python script") EXCEPT
          !.exitCode = code, !.stderr = s.errorOutput,
          !.pythonCommand = pythonCommands[s.cmd], !.scriptPath = s.scriptPath,
          !.fields = {"error", "exitCode", "stderr", "pythonCommand",
                      "scriptPath"}]
  ELSE NormalizeResponse(s)

OnClose_Unguarded(s, code) ==
  Send([s EXCEPT !.scriptExecuted = TRUE], CloseResponse(s, code))

\* python.on('close')
OnClose(s, code) ==
  IF s.scriptExecuted THEN s
  ELSE Send([s EXCEPT !.scriptExecuted = TRUE], CloseResponse(s, code))

\* the error handler sending its response without setting the flag
OnError_NoFlag(s) ==
  IF s.scriptExecuted THEN s
  ELSE IF pythonCommands[s.cmd] = LastCommand
  THEN Send(s,
            [Response(500, "Failed to start Python process with any command")
               EXCEPT !.scriptPath = s.scriptPath,
                      !.fields = {"error", "details", "triedCommands",
                                  "scriptPath"}])
  ELSE s

\* the error handler without the test for the last command
OnError_AnyCommand(s) ==
  IF s.scriptExecuted THEN s
  ELSE Send([s EXCEPT !.scriptExecuted = TRUE],
            [Response(500, "Failed to start Python process with any command")
               EXCEPT !.scriptPath = s.scriptPath,
                      !.fields = {"error", "details", "triedCommands",
                                  "scriptPath"}])

\* python.on('error')
OnError(s) ==
  IF s.scriptExecuted THEN s
  ELSE IF pythonCommands[s.cmd] = LastCommand
  THEN Send([s EXCEPT !.scriptExecuted = TRUE],
            [Response(500, "Failed to start Python process with any command")
               EXCEPT !.scriptPath = s.scriptPath,
                      !.fields = {"error", "details", "triedCommands",
                                  "scriptPath"}])
  ELSE s

\* the timer callback without the scriptExecuted test
OnTimeout_Unguarded(s) ==
  LET k == [s EXCEPT !.killed = TRUE, !.expired = TRUE] IN
  IF pythonCommands[s.cmd] = LastCommand
  THEN Send([k EXCEPT !.scriptExecuted = TRUE],
            [Response(500, "Python script execution timeout") EXCEPT
               !.pythonCommand = pythonCommands[s.cmd],
               !.fields = {"error", "pythonCommand", "timeout"}])
  ELSE k

\* the setTimeout callback
OnTimeout(s) ==
  IF ~s.scriptExecuted
  THEN LET k == [s EXCEPT !.killed = TRUE, !.expired = TRUE] IN
       IF pythonCommands[s.cmd] = LastCommand
       THEN Send([k EXCEPT !.scriptExecuted = TRUE],
                 [Response(500, "Python script execution timeout") EXCEPT
                    !.pythonCommand = pythonCommands[s.cmd],
                    !.fields = {"error", "pythonCommand", "timeout"}])
       ELSE k
  ELSE s

\* --------------------------------------------------------- interpreter loop
LaunchKinds == {"throw", "ok", "enoent"}

\* the try block without python.stdin.end()
Launch_NoEnd(s, i, kind) ==
  [s EXCEPT !.attempts = Append(@, [cmd |-> pythonCommands[i],
                                    script |-> s.scriptPath, threw |-> FALSE]),
            !.cmd = i,
            !.proc = IF kind = "ok" THEN "running" ELSE "spawnfail",
            !.stdin = <<[op |-> "write", data |-> StringifyInput(s.transcript)]>>,
            !.output = <<>>,
            !.errorOutput = <<>>,
            !.timer = "armed"]

\* the try block when nothing throws: spawn, stdin write and end, handler
\* registration, timer
Launch(s, i, kind) ==
  [s EXCEPT !.attempts = Append(@, [cmd |-> pythonCommands[i],
                                    script |-> s.scriptPath, threw |-> FALSE]),
            !.cmd = i,
            !.proc = IF kind = "ok" THEN "running" ELSE "spawnfail",
            !.stdin = <<[op |-> "write", data |-> StringifyInput(s.transcript)],
                        [op |-> "end", data |-> <<>>]>>,
            !.output = <<>>,
            !.errorOutput = <<>>,
            !.timer = "armed"]

\* the catch block
Catch(s, i) ==
  LET a == [s EXCEPT !.attempts = Append(@, [cmd |-> pythonCommands[i],
                                     script |-> s.scriptPath, threw |-> TRUE])]
  IN
  IF pythonCommands[i] = LastCommand /\ ~a.scriptExecuted
  THEN Send([a EXCEPT !.scriptExecuted = TRUE],
            [Response(500, "Failed to execute Python script") EXCEPT
               !.scriptPath = s.scriptPath,
               !.fields = {"error", "details", "triedCommands", "scriptPath"}])
  ELSE a

\* the loop without its `break`
RECURSIVE InterpreterLoop_NoBreak(_, _, _)
InterpreterLoop_NoBreak(s, i, launch) ==
  IF i > Len(pythonCommands) THEN s
  ELSE IF s.scriptExecuted THEN s
  ELSE IF launch[i] = "throw"
  THEN InterpreterLoop_NoBreak(Catch(s, i), i + 1, launch)
  ELSE InterpreterLoop_NoBreak(Launch(s, i, launch[i]), i + 1, launch)

\* for (const pythonCmd of pythonCommands), from candidate i on; launch[i]
\* is what spawning candidate i does.
RECURSIVE InterpreterLoop(_, _, _)
InterpreterLoop(s, i, launch) ==
  IF i > Len(pythonCommands) THEN s
  ELSE IF s.scriptExecuted THEN s
  ELSE IF launch[i] = "throw" THEN InterpreterLoop(Catch(s, i), i + 1, launch)
  ELSE Launch(s, i, launch[i])

\* app.post('/predict', ...)
HandlePredict(s, transcript, debugExists, originalExists, launch) ==
  LET r == [s EXCEPT !.received = TRUE, !.transcript = transcript,
                     !.debugSeen = debugExists,
                     !.originalSeen = originalExists]
      verr == ValidationError(transcript)
      path == ResolveScript(debugExists, originalExists)
  IN
  IF verr # "" THEN Send(r, Response(400, verr))
  ELSE LET v == [r EXCEPT !.scriptPath = path, !.existsCalls = 4] IN
    IF ~ExistsSync(path, debugExists, originalExists)
    THEN Send(v, [Response(500, "Python script not found") EXCEPT
                    !.scriptPath = path,
                    !.fields = {"error", "scriptPath", "cwd", "scriptsDir"}])
    ELSE InterpreterLoop(v, 1, launch)

\* ------------------------------------------------------------ environment
\* request bodies: the value of the transcript property
Transcripts ==
  {Undefined, Null, Bool(FALSE), Bool(TRUE), Num(0), Num(5), Obj, Arr,
   Str(<<>>), Str(<<" ">>), Str(<<"\n", " ">>),
   Str(<<"a">>), Str(<<" ", "a", "\n">>)}

\* what a subprocess may print on stdout
Texts ==
  {<<"\n">>, <<"0">>, <<"7", "0", "\n">>, <<"0", "7">>, <<"7", "e999">>,
   <<"{p:", "7", "}", "\n">>, <<"\n", "{p:", "0", "}">>,
   <<"{p:", "7", "e999", "}">>, <<"{p:", "str", "}">>, <<"{p:", "null", "}">>,
   <<"{p:", "{p:", "7", "}", "}">>,
   <<"str">>, <<"null">>, <<"[]">>, <<"{}">>, <<"}">>}

Segments(t) ==
  {SubSeq(t, i, j) : i \in 1..Len(t), j \in 1..Len(t)} \ {<<>>}

Chunks == UNION {Segments(t) : t \in Texts}

IsPrefix(a, b) == Len(a) <= Len(b) /\ SubSeq(b, 1, Len(a)) = a

Printable(text) == \E t \in Texts : IsPrefix(text, t)

\* exit codes a close event may carry: a number, or null after a signal;
\* the negative errno after a failed spawn
ExitCodes(proc) ==
  IF proc = "errored" THEN {Num(-2)} ELSE {Num(0), Num(1), Null}

VARIABLES rq, debugExists, originalExists
vars == <<rq, debugExists, originalExists>>

Init ==
  /\ rq = [r \in Req |-> NewRequest]
  /\ debugExists \in BOOLEAN
  /\ originalExists \in BOOLEAN

\* scriptExecuted declared once for the module instead of once per invocation
Store_SharedFlag(r, s) ==
  [q \in Req |-> IF q = r THEN s
                 ELSE [rq[q] EXCEPT !.scriptExecuted = s.scriptExecuted]]

\* scriptExecuted, output and errorOutput are declared inside the handler:
\* a callback of request r assigns the variables of r's invocation only
Store(r, s) == [rq EXCEPT ![r] = s]

\* a POST /predict request arrives and the handler runs to its end
Predict(r, transcript, launch) ==
  /\ ~rq[r].received
  /\ rq' = Store(r, HandlePredict(rq[r], transcript, debugExists,
                                  originalExists, launch))
  /\ UNCHANGED <<debugExists, originalExists>>

StdoutData(r, chunk) ==
  /\ rq[r].proc = "running"
  /\ Printable(rq[r].output \o chunk)
  /\ rq' = Store(r, OnStdout(rq[r], chunk))
  /\ UNCHANGED <<debugExists, originalExists>>

StderrData(r, chunk) ==
  /\ rq[r].proc = "running"
  /\ Len(rq[r].errorOutput) < MaxErrChunks
  /\ rq' = Store(r, OnStderr(rq[r], chunk))
  /\ UNCHANGED <<debugExists, originalExists>>

\* the subprocess and its streams have ended
Close(r, code) ==
  /\ rq[r].proc \in {"running", "errored"}
  /\ code \in ExitCodes(rq[r].proc)
  /\ rq' = Store(r, [OnClose(rq[r], code) EXCEPT
                       !.proc = "closed",
                       !.closeCode = code,
                       !.closeFirst = ~rq[r].scriptExecuted])
  /\ UNCHANGED <<debugExists, originalExists>>

\* the subprocess could not be started
Error(r) ==
  /\ rq[r].proc = "spawnfail"
  /\ rq' = Store(r, [OnError(rq[r]) EXCEPT !.proc = "errored",
                                           !.errored = TRUE])
  /\ UNCHANGED <<debugExists, originalExists>>

\* 30 seconds have passed since the launch; a failed spawn reports its error
\* and its close on the next ticks, long before that
Timeout(r) ==
  /\ rq[r].timer = "armed"
  /\ rq[r].proc \notin {"spawnfail", "errored"}
  /\ rq' = Store(r, [OnTimeout(rq[r]) EXCEPT !.timer = "fired"])
  /\ UNCHANGED <<debugExists, originalExists>>

\* an operator adds or removes a script file
FsChange(d, o) ==
  /\ <<d, o>> # <<debugExists, originalExists>>
  /\ debugExists' = d
  /\ originalExists' = o
  /\ UNCHANGED rq

Launches == [1..Len(pythonCommands) -> LaunchKinds]

Next ==
  \/ \E r \in {1} : \E t \in Transcripts, l \in Launches : Predict(r, t, l)
  \/ \E r \in Req : \E c \in Chunks : StdoutData(r, c)
  \/ \E r \in Req : StderrData(r, <<"E">>)
  \/ \E r \in Req : \E code \in {Num(0), Num(1), Num(-2), Null} : Close(r, code)
  \/ \E r \in Req : Error(r)
  \/ \E r \in Req : Timeout(r)
  \/ \E d, o \in BOOLEAN : FsChange(d, o)

Spec == Init /\ [][Next]_vars

\* The event loop runs every callback that is due: an armed timer expires, and
\* a failed spawn delivers its 'error' and then its 'close'.  A subprocess
\* that was started need never exit.
FairSpec ==
  /\ Spec
  /\ \A r \in Req : /\ WF_vars(Timeout(r))
                    /\ WF_vars(Error(r))
                    /\ WF_vars(Close(r, Num(-2)))

\* Several requests in flight at once, each with a short run of events.
ConcTranscripts == {Str(<<"a">>), Str(<<>>)}
ConcLaunches ==
  {<<"ok", "ok", "ok">>, <<"enoent", "ok", "ok">>, <<"throw", "throw", "ok">>}

NextConc ==
  \/ \E r \in Req : \E t \in ConcTranscripts, l \in ConcLaunches :
       Predict(r, t, l)
  \/ \E r \in Req : StdoutData(r, <<"0">>)
  \/ \E r \in Req : \E code \in {Num(0), Num(1), Num(-2)} : Close(r, code)
  \/ \E r \in Req : Error(r)
  \/ \E r \in Req : Timeout(r)

SpecConc == Init /\ [][NextConc]_vars

\* ------------------------------------------------------------------ claims
TimeoutError == "Python script execution timeout"
AllInterpretersFailed ==
  {"Failed to start Python process with any command",
   "Failed to execute Python script"}

Indices(seq) == 1..Len(seq)

\* missing, not a string, or blank after trimming
Invalid(t) == t.t = "undefined" \/ t.t # "string" \/ Trim(t.s) = <<>>

\* C1: at most one HTTP response is ever sent for a request, whatever the
\* order of its subprocess events.
C1_AtMostOneResponse == \A r \in Req : Len(rq[r].responses) <= 1

\* a success response was sent on close, and the timer expired afterwards
C1_Witness ==
  \E r \in Req : /\ Len(rq[r].responses) = 1
                  /\ rq[r].responses[1].status = 200
                  /\ rq[r].proc = "closed"
                  /\ rq[r].timer = "fired"
                  /\ ~rq[r].expired

\* C2: every request that was received eventually has exactly one response.
C2_EveryRequestAnswered ==
  \A r \in Req : rq[r].received ~> (Len(rq[r].responses) = 1)

\* C3: when the timer expires before a terminal outcome was reported, the
\* subprocess is killed and a Timeout response naming the current candidate
\* is sent, whichever candidate it is.
C3_TimeoutResponds ==
  \A r \in Req :
    rq[r].expired =>
      /\ rq[r].killed
      /\ \E i \in Indices(rq[r].responses) :
           /\ rq[r].responses[i].error = TimeoutError
           /\ rq[r].responses[i].pythonCommand = pythonCommands[rq[r].cmd]

\* C4: once the timer has expired with no terminal outcome reported, exactly
\* one Timeout response is sent and no success response is ever sent.
C4_TimeoutOnceNeverSuccess ==
  \A r \in Req :
    rq[r].expired =>
      /\ Cardinality({i \in Indices(rq[r].responses) :
                        rq[r].responses[i].error = TimeoutError}) = 1
      /\ \A i \in Indices(rq[r].responses) : rq[r].responses[i].status # 200

\* C5: a candidate that fails to launch (error event or exception) and is not
\* the last one is followed by a launch of the next candidate, with no
\* response sent; when the last candidate fails to launch the response is
\* AllInterpretersFailed.
C5_LaunchFailureAdvances ==
  \A r \in Req :
    LET n == Len(pythonCommands)
        a == rq[r].attempts IN
    /\ rq[r].errored /\ rq[r].cmd < n =>
         /\ Len(a) > rq[r].cmd
         /\ \A i \in Indices(rq[r].responses) :
              rq[r].responses[i].error \notin AllInterpretersFailed
    /\ \A i \in Indices(a) : a[i].threw /\ i < n => Len(a) > i
    /\ \/ rq[r].errored /\ rq[r].cmd = n
       \/ Len(a) = n /\ a[n].threw
       => /\ Len(rq[r].responses) = 1
          /\ rq[r].responses[1].error \in AllInterpretersFailed

\* C6: a request whose transcript is missing, not a string or blank gets a
\* 400 response, and nothing of the launch path is performed for it.
C6_InvalidNeverLaunches ==
  \A r \in Req :
    rq[r].received /\ Invalid(rq[r].transcript) =>
      /\ Len(rq[r].responses) = 1
      /\ rq[r].responses[1].status = 400
      /\ rq[r].existsCalls = 0
      /\ rq[r].attempts = <<>>
      /\ rq[r].proc = "none"
      /\ rq[r].stdin = <<>>
      /\ rq[r].timer = "unset"

\* a whitespace-only transcript was rejected
C6_Witness ==
  \E r \in Req : /\ rq[r].received
                  /\ rq[r].transcript = Str(<<"\n", " ">>)
                  /\ Len(rq[r].responses) = 1

\* C7: a transcript that is present but not a string fails with
\* "Transcript must be a string".
C7_NonStringIsWrongType ==
  \A r \in Req :
    rq[r].received /\ rq[r].transcript.t \notin {"undefined", "string"} =>
      /\ Len(rq[r].responses) = 1
      /\ rq[r].responses[1].error = "Transcript must be a string"

\* C8: a string transcript of trimmed length zero fails with
\* "Transcript cannot be empty".
C8_BlankIsEmptyValue ==
  \A r \in Req :
    /\ rq[r].received
    /\ rq[r].transcript.t = "string"
    /\ Len(Trim(rq[r].transcript.s)) = 0
    => /\ Len(rq[r].responses) = 1
       /\ rq[r].responses[1].error = "Transcript cannot be empty"

\* C9: a validated request launches with the debug script when it exists,
\* with the standard script when only that exists, and fails with
\* "Python script not found" (carrying the attempted path) without any
\* launch when neither exists.
C9_ScriptResolution ==
  \A r \in Req :
    rq[r].received /\ ~Invalid(rq[r].transcript) =>
      LET a == rq[r].attempts IN
      /\ rq[r].debugSeen =>
           /\ a # <<>>
           /\ \A i \in Indices(a) : a[i].script = debugScriptPath
      /\ ~rq[r].debugSeen /\ rq[r].originalSeen =>
           /\ a # <<>>
           /\ \A i \in Indices(a) : a[i].script = originalScriptPath
      /\ ~rq[r].debugSeen /\ ~rq[r].originalSeen =>
           /\ a = <<>>
           /\ rq[r].proc = "none"
           /\ rq[r].stdin = <<>>
           /\ Len(rq[r].responses) = 1
           /\ rq[r].responses[1].error = "Python script not found"
           /\ rq[r].responses[1].scriptPath = originalScriptPath

\* both scripts existed and the subprocess runs the debug script
C9_Witness ==
  \E r \in Req : /\ rq[r].received
                  /\ rq[r].debugSeen /\ rq[r].originalSeen
                  /\ rq[r].proc = "running"
                  /\ rq[r].attempts[Len(rq[r].attempts)].script = debugScriptPath

\* the candidate prediction of a parsed output: the prediction field of an
\* object that has one, else the whole value
Candidate(v) == IF v.t = "object" /\ v.p # <<>> THEN v.p[1] ELSE v

\* C10: a 200 response is {prediction: n} with n a number and is sent only
\* after a close with exit code 0 whose trimmed output parses to a number or
\* to an object with a numeric prediction; a non-numeric candidate yields 500.
C10_SuccessIsNumeric ==
  \A r \in Req :
    LET parsed == JSONParse(Trim(rq[r].output)) IN
    /\ \A i \in Indices(rq[r].responses) :
         rq[r].responses[i].status = 200 =>
           /\ rq[r].responses[i].fields = {"prediction"}
           /\ rq[r].responses[i].prediction.t = "number"
           /\ rq[r].closeCode = Num(0)
           /\ parsed.ok
           /\ TypeOf(Candidate(parsed.val)) = "number"
    /\ /\ Len(rq[r].responses) = 1
       /\ rq[r].closeCode = Num(0)
       /\ ~rq[r].killed /\ ~rq[r].errored
       /\ parsed.ok
       /\ TypeOf(Candidate(parsed.val)) # "number"
       => rq[r].responses[1].status = 500

\* a JSON number, as JSON.parse represents it
IsNumber(v) == v.t \in {"number", "infinity"}

\* C11: when the close event with exit code 0 is the first terminal event and
\* the trimmed stdout is {"prediction": n} or the bare number n, the response
\* is exactly 200 {"prediction": n}.
C11_NumericOutputIsReturned ==
  \A r \in Req :
    LET parsed == JSONParse(Trim(rq[r].output)) IN
    /\ rq[r].closeFirst
    /\ rq[r].closeCode = Num(0)
    /\ parsed.ok
    /\ \/ IsNumber(parsed.val)
       \/ parsed.val.t = "object" /\ parsed.val.p # <<>>
            /\ IsNumber(parsed.val.p[1])
    => /\ Len(rq[r].responses) = 1
       /\ rq[r].responses[1].status = 200
       /\ rq[r].responses[1].fields = {"prediction"}
       /\ rq[r].responses[1].prediction = Candidate(parsed.val)

\* the outcome of the normalization of a non-empty output
Normalized(resp) ==
  \/ resp.status = 200
  \/ resp.status = 500 /\ resp.error = "Invalid JSON from Python script"

NoOutput(resp) ==
  resp.status = 500 /\ resp.error = "No output from Python script"

ExecutionFailed(r, resp) ==
  /\ resp.status = 500
  /\ resp.error = "Python script execution failed"
  /\ {"exitCode", "stderr", "stdout"} \subseteq resp.fields
  /\ resp.exitCode = rq[r].closeCode
  /\ resp.stderr = rq[r].errorOutput
  /\ resp.stdout = rq[r].output

\* C12 as stated: when close is the first terminal event, exit code 0 with
\* non-empty accumulated output goes to normalization, exit code 0 with empty
\* output fails with NoOutput, a nonzero code fails with
\* ScriptExecutionFailed carrying code, stderr and stdout.
C12_CloseOutcome ==
  \A r \in Req :
    rq[r].closeFirst =>
      /\ Len(rq[r].responses) = 1
      /\ LET resp == rq[r].responses[1] IN
         IF rq[r].closeCode # Num(0) THEN ExecutionFailed(r, resp)
         ELSE IF rq[r].output = <<>> THEN NoOutput(resp)
         ELSE Normalized(resp)

\* C12 amended: as C12, with "empty" meaning empty after trimming, so that
\* whitespace-only output fails with NoOutput.
C12_CloseOutcomeTrimmed ==
  \A r \in Req :
    rq[r].closeFirst =>
      /\ Len(rq[r].responses) = 1
      /\ LET resp == rq[r].responses[1] IN
         IF rq[r].closeCode # Num(0) THEN ExecutionFailed(r, resp)
         ELSE IF Trim(rq[r].output) = <<>> THEN NoOutput(resp)
         ELSE Normalized(resp)

\* a subprocess printed only a newline, exited 0 and got NoOutput
C12_Witness ==
  \E r \in Req : /\ rq[r].closeFirst
                  /\ rq[r].closeCode = Num(0)
                  /\ rq[r].output = <<"\n">>
                  /\ NoOutput(rq[r].responses[1])

\* C13: once a candidate's subprocess was launched without a launch
\* exception, no further candidate is ever launched for that request, also
\* when that subprocess later exits nonzero or times out.
C13_FirstLaunchWins ==
  \A r \in Req :
    \A i \in Indices(rq[r].attempts) :
      ~rq[r].attempts[i].threw => i = Len(rq[r].attempts)

\* the first candidate was launched, timed out and exited nonzero, and it is
\* still the only attempt
C13_Witness ==
  \E r \in Req : /\ Len(rq[r].attempts) = 1
                  /\ rq[r].expired
                  /\ rq[r].proc = "closed"
                  /\ rq[r].closeCode = Num(1)

\* C14: with several requests in flight, a step of one request (its handler
\* or any event of its subprocess) leaves the completion flag, the
\* subprocess and the responses of every other request as they were, and
\* every request that passed validation and script resolution has launch
\* attempts of its own.
C14_RequestsIndependent ==
  /\ [](\A r \in Req :
         /\ rq[r].received
         /\ ~Invalid(rq[r].transcript)
         /\ rq[r].debugSeen \/ rq[r].originalSeen
         => rq[r].attempts # <<>>)
  /\ [][\A r \in Req :
         rq'[r] # rq[r] => \A q \in Req \ {r} : rq'[q] = rq[q]]_vars

\* one request has timed out and failed while another one is still running
\* with its completion flag unset
C14_Witness ==
  \E r, q \in Req :
    /\ r # q
    /\ rq[q].expired /\ rq[q].proc = "closed" /\ rq[q].closeCode = Num(1)
    /\ rq[q].responses # <<>> /\ rq[q].responses[1].status = 500
    /\ rq[r].proc = "running" /\ rq[r].output # <<>>
    /\ ~rq[r].scriptExecuted /\ rq[r].responses = <<>>

\* the text {"transcript": "..."} for a string of plain characters and
\* newlines
SerializedRequest(chars) ==
  <<"{\"transcript\":", "\"">> \o
  [i \in 1..Len(chars) |-> IF chars[i] = "\n" THEN "\\n" ELSE chars[i]] \o
  <<"\"", "}">>

\* an event of the subprocess of r has been handled
EventHandled(r) ==
  \/ rq[r].output # <<>>
  \/ rq[r].errorOutput # <<>>
  \/ rq[r].proc \in {"errored", "closed"}
  \/ rq[r].timer = "fired"

\* C15: the input stream of a launched subprocess receives the serialized
\* request exactly once and is then closed, before any event of that
\* subprocess is handled, and nothing is written afterwards.
C15_StdinWrittenOnceThenClosed ==
  \A r \in Req :
    /\ rq[r].proc # "none" \/ EventHandled(r) =>
         rq[r].stdin = <<[op |-> "write",
                          data |-> SerializedRequest(rq[r].transcript.s)],
                         [op |-> "end", data |-> <<>>]>>
    /\ rq[r].proc = "none" => rq[r].stdin = <<>>

\* a transcript with a newline was sent, and output, close and timer events
\* were handled afterwards
C15_Witness ==
  \E r \in Req : /\ rq[r].transcript = Str(<<" ", "a", "\n">>)
                  /\ Len(rq[r].stdin) = 2
                  /\ rq[r].output # <<>>
                  /\ rq[r].proc = "closed"
                  /\ rq[r].timer = "fired"

\* the runner phase of r has begun: the interpreter loop made an attempt
InRunner(r) == rq[r].attempts # <<>>

\* C16: scriptExecuted is false until the runner sends a response, is true
\* exactly when the runner has sent one (in the same step), and never
\* returns to false.
C16_FlagIsOneShot ==
  /\ [](\A r \in Req :
         /\ ~InRunner(r) => ~rq[r].scriptExecuted
         /\ InRunner(r) => (rq[r].scriptExecuted <=> Len(rq[r].responses) = 1)
         /\ InRunner(r) => Len(rq[r].responses) <= 1)
  /\ [][\A r \in Req : rq[r].scriptExecuted => rq'[r].scriptExecuted]_vars

\* the flag was set by the error handler of the last candidate, and a later
\* close left it set
C16_Witness ==
  \E r \in Req : /\ rq[r].scriptExecuted
                  /\ rq[r].errored
                  /\ rq[r].proc = "closed"
                  /\ ~rq[r].closeFirst
                  /\ Len(rq[r].responses) = 1

\* C17: an AllInterpretersFailed response is sent only after python3, python
\* and py were attempted in that order and each failed to launch, never
\* while a subprocess of the request is running.
C17_AllFailedOnlyAfterAll ==
  \A r \in Req :
    \A i \in Indices(rq[r].responses) :
      rq[r].responses[i].error \in AllInterpretersFailed =>
        LET a == rq[r].attempts IN
        /\ Len(a) = Len(pythonCommands)
        /\ \A k \in Indices(a) :
             /\ a[k].cmd = pythonCommands[k]
             /\ a[k].threw \/ (k = Len(a) /\ rq[r].errored)
        /\ rq[r].proc # "running"

\* python3 and python threw, py reported a launch error
C17_Witness ==
  \E r \in Req :
    /\ rq[r].errored
    /\ Len(rq[r].responses) = 1
    /\ rq[r].responses[1].error =
         "Failed to start Python process with any command"

\* C18: when the timer expires after a terminal outcome was reported, the
\* expiry does not kill the subprocess, sends no response and leaves the
\* completion flag as it was.
C18_LateTimerChangesNothing ==
  [][\A r \in Req :
       /\ rq[r].timer = "armed"
       /\ rq'[r].timer = "fired"
       /\ rq[r].responses # <<>>
       => rq'[r] = [rq[r] EXCEPT !.timer = "fired"]]_vars

\* the timer fired after a failure had been reported on close
C18_Witness ==
  \E r \in Req : /\ rq[r].timer = "fired"
                  /\ ~rq[r].expired /\ ~rq[r].killed
                  /\ rq[r].closeFirst
                  /\ rq[r].closeCode = Num(1)
                  /\ Len(rq[r].responses) = 1
====
